---- MODULE Spec2Model ----
(***************************************************************************)
(* Model of the DJI thermal R-JPEG to TIFF converter                       *)
(* (src/dji_thermal_converter.py, src/main.py, src/gui.py, src/config.py). *)
(*                                                                         *)
(* Conventions                                                             *)
(*  - a file name is a tuple of one-character strings, so that lower(),    *)
(*    upper(), endswith(), "in" and splitext() are computed, not assumed;  *)
(*  - a temperature is an integer number of hundredths of a degree C, so   *)
(*    t * 10 is the rational c / 10 and the int16 cast is a truncation;    *)
(*  - a behaviour is one construction of the converter followed by one     *)
(*    call of one entry point, run to its return.                          *)
(***************************************************************************)
EXTENDS Integers, Sequences, FiniteSets, TLC

\* ------------------------------------------------------------------ bounds

\* Largest number of files in the input tree.
MaxFiles == 3

\* Largest number of clicks on the GUI's convert button.
MaxClicks == 3

\* ------------------------------------------------------- program constants

\* _is_likely_rjpeg: files below this size are rejected.
MinRjpegSize == 100000

\* save_temperature_tiff: temperature_data * 10.
TempScale == 10

\* numpy int16.
Int16Min == -32768

Int16Max == 32767

Int16Mod == 65536

\* Config.MAX_CONCURRENT_CONVERSIONS; nothing in the program reads it.
MAX_CONCURRENT_CONVERSIONS == 4

\* ------------------------------------------------------------ characters

LowerOf ==
  [c \in {"A", "D", "E", "G", "I", "J", "P", "R", "T", "X"} |->
     CASE c = "A" -> "a" [] c = "D" -> "d" [] c = "E" -> "e" [] c = "G" -> "g"
       [] c = "I" -> "i" [] c = "J" -> "j" [] c = "P" -> "p" [] c = "R" -> "r"
       [] c = "T" -> "t" [] c = "X" -> "x"]

UpperOf ==
  [c \in {"a", "b", "c", "d", "e", "f", "g", "h", "i", "j", "m", "n", "p", "r",
          "s", "t", "x"} |->
     CASE c = "a" -> "A" [] c = "b" -> "B" [] c = "c" -> "C" [] c = "d" -> "D"
       [] c = "e" -> "E" [] c = "f" -> "F" [] c = "g" -> "G" [] c = "h" -> "H"
       [] c = "i" -> "I" [] c = "j" -> "J" [] c = "m" -> "M" [] c = "n" -> "N"
       [] c = "p" -> "P" [] c = "r" -> "R" [] c = "s" -> "S" [] c = "t" -> "T"
       [] c = "x" -> "X"]

\* str.lower()
Lower(s) == [k \in 1..Len(s) |-> IF s[k] \in DOMAIN LowerOf THEN LowerOf[s[k]] ELSE s[k]]

\* str.upper()
Upper(s) == [k \in 1..Len(s) |-> IF s[k] \in DOMAIN UpperOf THEN UpperOf[s[k]] ELSE s[k]]

\* str.endswith(suffix)
EndsWith(s, suf) ==
  /\ Len(suf) <= Len(s)
  /\ SubSeq(s, Len(s) - Len(suf) + 1, Len(s)) = suf

\* sub in s
Contains(s, sub) ==
  \E k \in 1..(Len(s) - Len(sub) + 1) : SubSeq(s, k, k + Len(sub) - 1) = sub

\* os.path.splitext(name)[0] for a name without directory separators: the part
\* before the last dot, a leading run of dots never starting the extension.
SplitextRoot(s) ==
  LET dots == {k \in 1..Len(s) : s[k] = "." /\ \E m \in 1..(k - 1) : s[m] # "."}
  IN IF dots = {} THEN s
     ELSE SubSeq(s, 1, (CHOOSE k \in dots : \A m \in dots : m <= k) - 1)

ExtJpg == <<".", "j", "p", "g">>

ExtJpeg == <<".", "j", "p", "e", "g">>

ExtTiff == <<".", "t", "i", "f", "f">>

MarkDJI == <<"D", "J", "I">>

MarkT == <<"_", "T">>

MarkR == <<"_", "R">>

\* ---------------------------------------------------------------- files

\* A decodable image carries its pixel size <<width, height>>; NoImage is
\* content PIL cannot open.
NoImage == <<0, 0>>

\* The files an input tree is drawn from.  dir: the directory below the input
\* directory (<<>> is the top level); size: bytes; readable: open() succeeds;
\* image: what PIL reads; tag: b'DJI' or b'FLIR' within the first 1000 bytes.
FilePool ==
  { [dir |-> <<>>, name |-> <<"D","J","I","_","1",".","j","p","g">>,
     size |-> 200000, readable |-> TRUE, image |-> <<640, 512>>, tag |-> TRUE],
    [dir |-> <<>>, name |-> <<"a",".","J","p","e","g">>,
     size |-> 150000, readable |-> TRUE, image |-> <<1280, 1024>>, tag |-> FALSE],
    [dir |-> <<"sub">>, name |-> <<"D","J","I","_","2",".","J","P","G">>,
     size |-> 300000, readable |-> TRUE, image |-> NoImage, tag |-> TRUE],
    [dir |-> <<>>, name |-> <<"d","j","i","_","3",".","j","p","g">>,
     size |-> 120000, readable |-> FALSE, image |-> NoImage, tag |-> FALSE],
    [dir |-> <<>>, name |-> <<"b",".","j","p","g">>,
     size |-> 120000, readable |-> FALSE, image |-> NoImage, tag |-> FALSE],
    [dir |-> <<>>, name |-> <<"e","_","t",".","j","p","g">>,
     size |-> 0, readable |-> TRUE, image |-> NoImage, tag |-> FALSE],
    [dir |-> <<>>, name |-> <<"n",".","t","x","t">>,
     size |-> 200000, readable |-> TRUE, image |-> NoImage, tag |-> FALSE],
    [dir |-> <<>>, name |-> <<"a",".","j","p","g">>,
     size |-> 100000, readable |-> TRUE, image |-> NoImage, tag |-> FALSE] }

Trees == {t \in SUBSET FilePool : Cardinality(t) <= MaxFiles}

NoFile ==
  [dir |-> <<>>, name |-> <<>>, size |-> 0, readable |-> FALSE,
   image |-> NoImage, tag |-> FALSE]

\* -------------------------------------------------------- device tables

\* DJIThermalConverter.device_configs: temperature_range in degrees C,
\* resolution <<width, height>>.
device_configs ==
  [m \in {"M30T", "H20T", "H30T", "M2EA"} |->
     CASE m = "M30T" -> [temperature_range |-> <<-20, 400>>, resolution |-> <<1280, 1024>>]
       [] m = "H20T" -> [temperature_range |-> <<-20, 550>>, resolution |-> <<640, 512>>]
       [] m = "H30T" -> [temperature_range |-> <<-20, 1600>>, resolution |-> <<640, 512>>]
       [] m = "M2EA" -> [temperature_range |-> <<-10, 400>>, resolution |-> <<640, 512>>]]

\* DJIThermalConverter.default_model
default_model == "M30T"

\* Config.DRONE_MODELS: temperature_range in degrees C, resolution
\* <<width, height>>, pixel_size in micrometres, spectral_range in
\* micrometres, thermal_sensitivity in hundredths of a degree C.
DRONE_MODELS ==
  [m \in {"M30T", "H20T", "H30T", "M2EA"} |->
     CASE m = "M30T" -> [temperature_range |-> <<-20, 400>>, resolution |-> <<640, 512>>,
                         pixel_size |-> 12, format_support |-> <<"jpg", "jpeg">>,
                         spectral_range |-> <<8, 14>>, thermal_sensitivity |-> 5]
       [] m = "H20T" -> [temperature_range |-> <<-20, 550>>, resolution |-> <<640, 512>>,
                         pixel_size |-> 12, format_support |-> <<"jpg", "jpeg">>,
                         spectral_range |-> <<8, 14>>, thermal_sensitivity |-> 5]
       [] m = "H30T" -> [temperature_range |-> <<-20, 1600>>, resolution |-> <<640, 512>>,
                         pixel_size |-> 12, format_support |-> <<"jpg", "jpeg">>,
                         spectral_range |-> <<8, 14>>, thermal_sensitivity |-> 5]
       [] m = "M2EA" -> [temperature_range |-> <<-10, 400>>, resolution |-> <<640, 512>>,
                         pixel_size |-> 17, format_support |-> <<"jpg", "jpeg">>,
                         spectral_range |-> <<8, 14>>, thermal_sensitivity |-> 10]]

\* Config.DEFAULT_DRONE_MODEL
DEFAULT_DRONE_MODEL == "M30T"

\* The keys of Config.DRONE_MODELS, letter by letter.
Spelling ==
  [m \in {"M30T", "H20T", "H30T", "M2EA"} |->
     CASE m = "M30T" -> <<"M", "3", "0", "T">>
       [] m = "H20T" -> <<"H", "2", "0", "T">>
       [] m = "H30T" -> <<"H", "3", "0", "T">>
       [] m = "M2EA" -> <<"M", "2", "E", "A">>]

NoRecord ==
  [temperature_range |-> <<0, 0>>, resolution |-> <<0, 0>>, pixel_size |-> 0,
   format_support |-> <<>>, spectral_range |-> <<0, 0>>,
   thermal_sensitivity |-> 0]

\* get_model_config without model.upper(): the id is looked up as given.
GetModelConfigAsGiven(reg, model) ==
  LET keys == {m \in DOMAIN reg : Spelling[m] = model}
  IN IF keys = {}
       THEN [ok |-> FALSE, error |-> "ValueError", record |-> NoRecord,
             registry |-> reg]
     ELSE [ok |-> TRUE, error |-> "none",
           record |-> reg[CHOOSE m \in keys : TRUE], registry |-> reg]

\* Config.get_model_config(model) on the table reg: the id is upper-cased,
\* an id that is no key raises ValueError, else the key's record is returned;
\* registry is the table after the call.
GetModelConfig(reg, model) ==
  LET keys == {m \in DOMAIN reg : Spelling[m] = Upper(model)}
  IN IF keys = {}
       THEN [ok |-> FALSE, error |-> "ValueError", record |-> NoRecord,
             registry |-> reg]
     ELSE [ok |-> TRUE, error |-> "none",
           record |-> reg[CHOOSE m \in keys : TRUE], registry |-> reg]

\* ------------------------------------------------------------ numerics

\* floor(sqrt(n)) for n >= 0
ISqrt(n) ==
  LET RECURSIVE Bisect(_, _)
      Bisect(lo, hi) ==
        IF hi - lo <= 1 THEN lo
        ELSE LET mid == (lo + hi) \div 2
             IN IF mid * mid <= n THEN Bisect(mid, hi) ELSE Bisect(lo, mid)
  IN Bisect(0, IF n < 46340 THEN n + 1 ELSE 46340)

\* 1000 * exp(-k) and 1000 * exp(-k / 10), rounded.
ExpWhole == <<1000, 368, 135, 50, 18, 7, 2>>

ExpTenth == <<1000, 905, 819, 741, 670, 607, 549, 497, 449, 407>>

\* amp * exp(-dist / scale) in the unit of amp, to about one percent.
Decay(amp, dist, scale) ==
  LET q == (10 * dist) \div scale
      n == q \div 10
      r == q % 10
  IN IF n >= Len(ExpWhole) THEN 0
     ELSE (amp * ((ExpWhole[n + 1] * ExpTenth[r + 1]) \div 1000)) \div 1000

\* Python int(x) / numpy astype on an in-range value: truncation toward zero of
\* the rational a / b, b > 0.
TruncDiv(a, b) == IF a >= 0 THEN a \div b ELSE -((-a) \div b)

\* round(a / b), halves to even as Python and numpy round, b > 0.
RoundDiv(a, b) ==
  LET f == a \div b
      twice == 2 * (a - f * b)
  IN IF twice < b THEN f
     ELSE IF twice > b THEN f + 1
     ELSE IF f % 2 = 0 THEN f ELSE f + 1

\* ------------------------------------------------------------- state

VARIABLES
  tree,            \* environment: the files below the input directory
  sdkLib,          \* environment: "absent" | "unloadable" | "loadable" (libdirp)
  sdk_handle,      \* DJIThermalConverter.sdk_handle: "None" | "lib"
  is_initialized,  \* DJIThermalConverter.is_initialized
  pc,              \* "idle" | "discover" | "convert" | "done"
  call,            \* the entry point called and its arguments
  rjpeg_files,     \* batch_convert: the discovered list
  idx,             \* batch_convert: number of loop iterations completed
  results,         \* batch_convert: {'success', 'failed', 'total'}
  jobs,            \* history: one record per loop iteration of batch_convert
  outFiles,        \* environment: the files below the output directory
  ret,             \* what the entry point returned
  registry,        \* Config.DRONE_MODELS, the class attribute as it is now
  gui              \* the window of gui.py: its flag, button, bar and workers

vars ==
  <<gui, registry, tree, sdkLib, sdk_handle, is_initialized, pc, call, rjpeg_files, idx,
    results, jobs, outFiles, ret>>

\* --------------------------------------------------------- construction

\* _find_sdk_library: a path when one of the candidate paths exists.
FindSdkLibrary(lib) == IF lib = "absent" THEN "None" ELSE "libdirp"

\* _init_sdk: <<sdk_handle, is_initialized>> after construction.  A missing
\* library returns early; a LoadLibrary error is caught and leaves both unset.
InitSdk(lib) ==
  IF FindSdkLibrary(lib) = "None" THEN [handle |-> "None", initialized |-> FALSE]
  ELSE IF lib = "unloadable" THEN [handle |-> "None", initialized |-> FALSE]
  ELSE [handle |-> "lib", initialized |-> TRUE]

\* ------------------------------------------------------- the pipeline

NoGrid == [shape |-> <<0, 0>>, source |-> "none", samples |-> <<>>]

NoMeta ==
  [original_file |-> <<>>, file_size |-> 0, sdk_version |-> "none",
   detected_width |-> 0, detected_height |-> 0, device_model |-> "none",
   data_shape |-> <<0, 0>>, is_real_data |-> FALSE, warning |-> FALSE]

\* _detect_image_resolution: the image's size, or the default model's
\* resolution when PIL cannot open the file.
DetectImageResolution(f) ==
  IF f.readable /\ f.image # NoImage THEN f.image
  ELSE device_configs[default_model].resolution

\* The value _create_mock_temperature_data stores at row i, column j of a
\* height x width grid, in hundredths of a degree: the gradient
\* 20 + 20 * (i / height) * (j / width) with the fractions taken in
\* thousandths, plus the two hot spots.
MockTemp(width, height, i, j) ==
  LET cx == width \div 2
      cy == height \div 2
      fi == (1000 * i) \div height
      fj == (1000 * j) \div width
      base == 2000 + (2 * fi * fj) \div 1000
      d1 == ISqrt((j - cx) * (j - cx) + (i - cy) * (i - cy))
      d2 == ISqrt((j - cx + 100) * (j - cx + 100) + (i - cy + 100) * (i - cy + 100))
  IN base + Decay(6000, d1, 50) + Decay(4500, d2, 30)

\* The pixels of a grid the model keeps: first, centre and last.
SamplePixels(width, height) ==
  IF width <= 0 \/ height <= 0 THEN <<>>
  ELSE << <<0, 0>>, <<height \div 2, width \div 2>>, <<height - 1, width - 1>> >>

\* _create_mock_temperature_data adding a term that grows with the calls made
\* before on the same converter: a call made after another one returned gives
\* every pixel a hundredth of a degree more.
CreateMockTemperatureDataDrifting(resolution) ==
  LET width == resolution[1]
      height == resolution[2]
      px == SamplePixels(width, height)
      drift == IF pc = "done" THEN 1 ELSE 0
  IN IF width < 0 \/ height < 0 THEN [ok |-> FALSE, grid |-> NoGrid]
     ELSE [ok |-> TRUE,
           grid |-> [shape |-> <<height, width>>, source |-> "synthetic",
                     samples |-> [k \in 1..Len(px) |->
                                    MockTemp(width, height, px[k][1], px[k][2])
                                      + drift]]]

\* _create_mock_temperature_data(resolution): np.zeros raises ValueError on a
\* negative dimension; a zero dimension gives an empty array and no error.
CreateMockTemperatureData(resolution) ==
  LET width == resolution[1]
      height == resolution[2]
      px == SamplePixels(width, height)
  IN IF width < 0 \/ height < 0 THEN [ok |-> FALSE, grid |-> NoGrid]
     ELSE [ok |-> TRUE,
           grid |-> [shape |-> <<height, width>>, source |-> "synthetic",
                     samples |-> [k \in 1..Len(px) |->
                                    MockTemp(width, height, px[k][1], px[k][2])]]]

\* _parse_rjpeg_with_sdk: without a handle the mock data; with a handle the
\* vendor calls are not implemented and the mock data is returned as well.
ParseRjpegWithSdk(handle, data_len, resolution) ==
  IF handle = "None" THEN CreateMockTemperatureData(resolution)
  ELSE CreateMockTemperatureData(resolution)

\* extract_temperature_data: detect, read, acquire, build metadata.  stage is
\* where an exception left the function ("ok" when none did), ran the stages
\* entered, in the order they were entered.
ExtractTemperatureData(handle, initialized, f) ==
  LET Extracted(res, acq) ==
        IF ~f.readable
          THEN [ok |-> FALSE, stage |-> "read", grid |-> NoGrid,
                meta |-> NoMeta, ran |-> <<"detect", "read">>]
        ELSE IF ~acq.ok
          THEN [ok |-> FALSE, stage |-> "acquire", grid |-> NoGrid,
                meta |-> NoMeta, ran |-> <<"detect", "read", "acquire">>]
        ELSE [ok |-> TRUE, stage |-> "ok", grid |-> acq.grid,
              ran |-> <<"detect", "read", "acquire", "metadata">>,
              meta |-> [original_file |-> f.name,
                        file_size |-> f.size,
                        sdk_version |-> IF initialized THEN "DJI Thermal SDK v1.4"
                                        ELSE "Mock Data (SDK Not Installed)",
                        detected_width |-> res[1],
                        detected_height |-> res[2],
                        device_model |-> default_model,
                        data_shape |-> acq.grid.shape,
                        is_real_data |-> initialized,
                        warning |-> ~initialized]]
  IN Extracted(DetectImageResolution(f),
               ParseRjpegWithSdk(handle, f.size, DetectImageResolution(f)))

\* --------------------------------------------------------- the encoder

\* What the environment does to a write: "ok"; "fail" (makedirs or the open of
\* the output raises, nothing is written); "partial" (the write raises after
\* it started and the bytes written so far stay at the path).
WriteOutcomes == {"ok", "fail", "partial"}

\* The keys of Config.TIFF_COMPRESSION_OPTIONS.  The converter never reads
\* the table: save_temperature_tiff hands its compression argument to
\* Image.save as it is.
TIFF_COMPRESSION_OPTIONS == {"lzw", "zip", "none"}

\* What the build's float -> int16 conversion does to a value that does not
\* fit (C leaves it undefined): keep the low 16 bits, or clamp.
CastModes == {"wrap", "saturate"}

InInt16(v) == Int16Min <= v /\ v <= Int16Max

Wrap16(v) == ((v - Int16Min) % Int16Mod) + Int16Min

Saturate16(v) == IF v < Int16Min THEN Int16Min ELSE Int16Max

\* (temperature_data * 10).astype(np.int16) on one value of c hundredths.
AstypeInt16(c, cast) ==
  LET v == TruncDiv(c * TempScale, 100)
  IN IF InInt16(v) THEN v
     ELSE IF cast = "wrap" THEN Wrap16(v) ELSE Saturate16(v)

\* The output directory after a file is put at rec.path.
PutFile(files, rec) == {x \in files : x.path # rec.path} \cup {rec}

\* save_temperature_tiff: no exception leaves it; True once PIL has saved.
SaveTemperatureTiff(grid, meta, out, compression, files, w, cast) ==
  LET stored == [k \in 1..Len(grid.samples) |-> AstypeInt16(grid.samples[k], cast)]
  IN IF w = "ok"
       THEN [ok |-> TRUE,
             files |-> PutFile(files, [path |-> out, state |-> "complete",
                                       compression |-> compression,
                                       stored |-> stored, meta |-> meta])]
     ELSE IF w = "partial"
       THEN [ok |-> FALSE,
             files |-> PutFile(files, [path |-> out, state |-> "partial",
                                       compression |-> compression,
                                       stored |-> <<>>, meta |-> NoMeta])]
     ELSE [ok |-> FALSE, files |-> files]

\* convert_rjpeg_to_tiff with the raise of extract_temperature_data
\* swallowed: the encoder is called on whatever extraction left.
ConvertRjpegToTiffSaveAnyway(handle, initialized, f, out, files, w, cast) ==
  LET Saved(ext, sv) ==
        [ok |-> sv.ok /\ ext.ok,
         stage |-> IF ~ext.ok THEN ext.stage
                   ELSE IF sv.ok THEN "ok" ELSE "encode",
         grid |-> ext.grid, meta |-> ext.meta, files |-> sv.files,
         ran |-> ext.ran \o <<"encode">>]
      Converted(ext) ==
        Saved(ext, SaveTemperatureTiff(ext.grid, ext.meta, out, "lzw", files,
                                       w, cast))
  IN Converted(ExtractTemperatureData(handle, initialized, f))

\* convert_rjpeg_to_tiff: extract, then save with the default compression;
\* every exception is caught and gives False.
ConvertRjpegToTiff(handle, initialized, f, out, files, w, cast) ==
  LET Saved(ext, sv) ==
        [ok |-> sv.ok, stage |-> IF sv.ok THEN "ok" ELSE "encode",
         grid |-> ext.grid, meta |-> ext.meta, files |-> sv.files,
         ran |-> ext.ran \o <<"encode">>]
      Converted(ext) ==
        IF ~ext.ok
          THEN [ok |-> FALSE, stage |-> ext.stage, grid |-> NoGrid,
                meta |-> NoMeta, files |-> files, ran |-> ext.ran]
        ELSE Saved(ext, SaveTemperatureTiff(ext.grid, ext.meta, out, "lzw",
                                            files, w, cast))
  IN Converted(ExtractTemperatureData(handle, initialized, f))

\* ------------------------------------------------------ batch discovery

\* file.lower().endswith(('.jpg', '.jpeg'))
HasJpegExtension(name) ==
  EndsWith(Lower(name), ExtJpg) \/ EndsWith(Lower(name), ExtJpeg)

\* _is_likely_rjpeg
IsLikelyRjpeg(f) ==
  IF f.size < MinRjpegSize THEN FALSE
  ELSE IF \/ Contains(Upper(f.name), MarkDJI)
          \/ Contains(Upper(f.name), MarkT)
          \/ Contains(Upper(f.name), MarkR) THEN TRUE
  ELSE IF ~f.readable THEN FALSE
  ELSE IF f.tag THEN TRUE
  ELSE TRUE

\* The files os.walk visits: the whole tree, or the top directory only when
\* the loop breaks after its first iteration.
Walked(t, recursive) == IF recursive THEN t ELSE {f \in t : f.dir = <<>>}

\* The files batch_convert appends to rjpeg_files.
Candidates(t, recursive) ==
  {f \in Walked(t, recursive) : HasJpegExtension(f.name) /\ IsLikelyRjpeg(f)}

\* The orders os.walk can list a set of files in: top-down, so the files of
\* the top directory come first; within a directory any order.
WalkOrders(S) ==
  {q \in [1..Cardinality(S) -> S] :
     /\ \A a, b \in 1..Cardinality(S) : a # b => q[a] # q[b]
     /\ \A a, b \in 1..Cardinality(S) :
          (q[a].dir = <<>> /\ q[b].dir # <<>>) => a < b}

\* BatchOutputPath with basename() in place of relpath(): every output lands
\* directly in output_dir.
BatchOutputPathFlat(f) ==
  [dir |-> <<"out">>, name |-> SplitextRoot(f.name) \o ExtTiff]

\* The output path batch_convert gives a file: output_dir joined with the
\* path relative to input_dir, the extension replaced by '.tiff'.
BatchOutputPath(f) ==
  [dir |-> <<"out">> \o f.dir, name |-> SplitextRoot(f.name) \o ExtTiff]

\* CountJob writing back a count read before the previous iteration's update:
\* the second success overwrites the first.
CountJobStale(res, ok) ==
  IF ok THEN [res EXCEPT !.success = IF @ = 1 THEN 1 ELSE @ + 1]
  ELSE [res EXCEPT !.failed = @ + 1]

\* CountJob with the else branch lost: a failed conversion is not counted.
CountJobDropFailed(res, ok) ==
  IF ok THEN [res EXCEPT !.success = @ + 1] ELSE res

\* CountJob revising the total: a failed conversion is taken out of it.
CountJobReviseTotal(res, ok) ==
  IF ok THEN [res EXCEPT !.success = @ + 1]
  ELSE [res EXCEPT !.failed = @ + 1, !.total = @ - 1]

\* results after one loop iteration of batch_convert.
CountJob(res, ok) ==
  IF ok THEN [res EXCEPT !.success = @ + 1] ELSE [res EXCEPT !.failed = @ + 1]

\* AfterJob with a break on failure: the rest of the list is dropped.
AfterJobBreak(i, n, ok) == IF ok THEN i + 1 ELSE n

\* AfterJob stepping over the entry that follows a failure.
AfterJobSkip(i, n, ok) == IF ok THEN i + 1 ELSE i + 2

\* The number of list entries the for loop has consumed after the iteration
\* that followed i of the n entries: the loop has no break and no continue.
AfterJob(i, n, ok) == i + 1

\* ---------------------------------------------------------------- Init

ZeroResults == [success |-> 0, failed |-> 0, total |-> 0]

NoPath == [dir |-> <<>>, name |-> <<>>]

\* write: what the environment does to the call's write of its output;
\* compression: the compression argument of a direct save_temperature_tiff;
\* model: the id get_model_config is called with; again: the resolution of
\* a second _create_mock_temperature_data call, grid then being what the
\* first call returned; args: --model and --compression of a command line.
NoCall ==
  [op |-> "none", recursive |-> FALSE, input_dir |-> "none", file |-> NoFile,
   output |-> NoPath, grid |-> NoGrid, resolution |-> <<0, 0>>,
   write |-> "none", compression |-> "unset", model |-> <<>>,
   again |-> <<0, 0>>, args |-> [model |-> "unset", compression |-> "unset"]]

\* image_files, jobs: the list the command line's batch mode globbed and one
\* record per iteration of its loop.
NoRet ==
  [ok |-> FALSE, exit |-> 0, converted |-> FALSE, stage |-> "none",
   grid |-> NoGrid, meta |-> NoMeta, results |-> ZeroResults, ran |-> <<>>,
   image_files |-> <<>>, jobs |-> <<>>, record |-> NoRecord]

\* ThermalConverterGUI.__init__: is_converting = False, the convert button
\* enabled, the progress bar at rest, no worker thread; clicks counts the
\* clicks on the convert button, workers holds where each worker thread is,
\* left the way each worker left its try block.
NoGui ==
  [is_converting |-> FALSE, button |-> "normal", progress |-> "stopped",
   workers |-> <<>>, left |-> <<>>, clicks |-> 0]

\* The state after DJIThermalConverter() has been constructed in some
\* environment and before an entry point is called.
Init ==
  /\ gui = NoGui
  /\ registry = DRONE_MODELS
  /\ tree \in Trees
  /\ sdkLib \in {"absent", "unloadable", "loadable"}
  /\ sdk_handle = InitSdk(sdkLib).handle
  /\ is_initialized = InitSdk(sdkLib).initialized
  /\ pc = "idle"
  /\ call = NoCall
  /\ rjpeg_files = <<>>
  /\ idx = 0
  /\ results = ZeroResults
  /\ jobs = <<>>
  /\ outFiles = {}
  /\ ret = NoRet

\* ------------------------------------------------------- batch_convert

\* batch_convert is entered: results = {'success': 0, 'failed': 0, 'total': 0}.
\* input_dir is the tree, a directory that does not exist, or not a path.
BatchCall ==
  /\ pc = "idle"
  /\ \E recursive \in BOOLEAN, dir \in {"tree", "missing", "invalid"} :
       call' = [NoCall EXCEPT !.op = "batch", !.recursive = recursive,
                              !.input_dir = dir]
  /\ results' = ZeroResults
  /\ pc' = "discover"
  /\ UNCHANGED <<gui, registry, tree, sdkLib, sdk_handle, is_initialized, rjpeg_files, idx,
                 jobs, outFiles, ret>>

\* The files below input_dir: those of the tree, or none when the directory
\* does not exist (os.walk of such a directory yields nothing).
InputFiles == IF call.input_dir = "tree" THEN tree ELSE {}

\* The conditions under which each step of batch_convert is taken.
CanDiscover ==
  /\ pc = "discover"
  /\ call.input_dir # "invalid"
  /\ WalkOrders(Candidates(InputFiles, call.recursive)) # {}

CanDiscoverRaise == pc = "discover" /\ call.input_dir = "invalid"

CanIterate == pc = "convert" /\ idx < Len(rjpeg_files)

CanFinish == pc = "job" /\ idx < Len(rjpeg_files)

CanReturn == pc = "convert" /\ idx >= Len(rjpeg_files)

\* The os.walk loop and results['total'] = len(rjpeg_files).
BatchDiscover ==
  /\ CanDiscover
  /\ \E q \in WalkOrders(Candidates(InputFiles, call.recursive)) :
       /\ rjpeg_files' = q
       /\ results' = [results EXCEPT !.total = Len(q)]
  /\ idx' = 0
  /\ pc' = "convert"
  /\ UNCHANGED <<gui, registry, tree, sdkLib, sdk_handle, is_initialized, call, jobs,
                 outFiles, ret>>

\* os.walk raises (input_dir is not a path): the outer handler logs and
\* batch_convert returns results as they are.
BatchDiscoverRaise ==
  /\ CanDiscoverRaise
  /\ ret' = [NoRet EXCEPT !.results = results]
  /\ pc' = "done"
  /\ UNCHANGED <<gui, registry, tree, sdkLib, sdk_handle, is_initialized, call, rjpeg_files,
                 idx, results, jobs, outFiles>>

\* An iteration of the for loop has computed its output path and calls
\* convert_rjpeg_to_tiff: the loop waits in the call.
BatchJobStart ==
  /\ CanIterate
  /\ pc' = "job"
  /\ UNCHANGED <<gui, registry, tree, sdkLib, sdk_handle, is_initialized, call,
                 rjpeg_files, idx, results, jobs, outFiles, ret>>

\* convert_rjpeg_to_tiff returns and the iteration counts its result.
BatchJob ==
  /\ CanFinish
  /\ pc' = "convert"
  /\ \E w \in WriteOutcomes :
       LET f == rjpeg_files[idx + 1]
           out == BatchOutputPath(f)
           r == ConvertRjpegToTiff(sdk_handle, is_initialized, f, out,
                                   outFiles, w, "wrap")
       IN /\ results' = CountJob(results, r.ok)
          /\ idx' = AfterJob(idx, Len(rjpeg_files), r.ok)
          /\ outFiles' = r.files
          /\ jobs' = Append(jobs, [file |-> f, out |-> out, called |-> TRUE,
                                    ok |-> r.ok, stage |-> r.stage,
                                    meta |-> r.meta, ran |-> r.ran])
  /\ UNCHANGED <<gui, registry, tree, sdkLib, sdk_handle, is_initialized, call,
                 rjpeg_files, ret>>

\* One iteration of the for loop in which os.path.relpath raises (the working
\* directory is gone): the inner handler counts the file as failed.
BatchJobRaise ==
  /\ CanIterate
  /\ LET f == rjpeg_files[idx + 1]
     IN /\ results' = [results EXCEPT !.failed = @ + 1]
        /\ idx' = AfterJob(idx, Len(rjpeg_files), FALSE)
        /\ jobs' = Append(jobs, [file |-> f, out |-> NoPath, called |-> FALSE,
                                  ok |-> FALSE, stage |-> "path",
                                  meta |-> NoMeta, ran |-> <<>>])
  /\ UNCHANGED <<gui, registry, tree, sdkLib, sdk_handle, is_initialized, pc, call,
                 rjpeg_files, outFiles, ret>>

\* The loop is over: batch_convert returns results.
BatchReturn ==
  /\ CanReturn
  /\ ret' = [NoRet EXCEPT !.results = results]
  /\ pc' = "done"
  /\ UNCHANGED <<gui, registry, tree, sdkLib, sdk_handle, is_initialized, call, rjpeg_files,
                 idx, results, jobs, outFiles>>

\* ------------------------------------------------- single conversions

\* The output path of a single conversion.
SingleOutputPath == [dir |-> <<"out">>, name |-> <<"o">> \o ExtTiff]

\* converter.convert_rjpeg_to_tiff(input_path, output_path) called directly.
ConvertSingle ==
  /\ pc = "idle"
  /\ \E f \in tree, w \in WriteOutcomes :
       LET r == ConvertRjpegToTiff(sdk_handle, is_initialized, f,
                                   SingleOutputPath, outFiles, w, "wrap")
       IN /\ call' = [NoCall EXCEPT !.op = "single", !.file = f,
                                     !.output = SingleOutputPath,
                                     !.write = w]
          /\ ret' = [NoRet EXCEPT !.ok = r.ok, !.converted = TRUE,
                                   !.stage = r.stage, !.grid = r.grid,
                                   !.meta = r.meta, !.ran = r.ran]
          /\ outFiles' = r.files
  /\ pc' = "done"
  /\ UNCHANGED <<gui, registry, tree, sdkLib, sdk_handle, is_initialized, rjpeg_files, idx,
                 results, jobs>>

\* main.py main() and run_dji_conversion in single-file mode, the converter
\* already constructed: sys.exit(1) when the SDK is not initialised, else the
\* conversion, whose result is logged and does not change the exit status.
CliMain(handle, initialized, f, out, files, w) ==
  LET r == ConvertRjpegToTiff(handle, initialized, f, out, files, w, "wrap")
  IN IF ~initialized
       THEN [NoRet EXCEPT !.exit = 1] @@ [files |-> files]
     ELSE [NoRet EXCEPT !.ok = r.ok, !.converted = TRUE, !.stage = r.stage,
                        !.grid = r.grid, !.meta = r.meta, !.ran = r.ran]
            @@ [files |-> r.files]

\* gui.py convert_images in single-file mode: returns after logging an error
\* when the SDK is not initialised, else converts.
GuiConvertImages(handle, initialized, f, out, files, w) ==
  LET r == ConvertRjpegToTiff(handle, initialized, f, out, files, w, "wrap")
  IN IF ~initialized
       THEN [NoRet EXCEPT !.stage = "sdk"] @@ [files |-> files]
     ELSE [NoRet EXCEPT !.ok = r.ok, !.converted = TRUE, !.stage = r.stage,
                        !.grid = r.grid, !.meta = r.meta, !.ran = r.ran]
            @@ [files |-> r.files]

\* The fields of a record r that NoRet has.
AsRet(r) == [k \in DOMAIN NoRet |-> r[k]]

\* The --model and --compression a command line is given: the defaults, and
\* a model and a compression that are not the defaults.  argparse stores
\* them in args.model and args.compression; main() and run_dji_conversion
\* read neither, and DJIThermalConverter and convert_rjpeg_to_tiff have no
\* parameter for them.
CliArgs ==
  { [model |-> "M30T", compression |-> "lzw"],
    [model |-> "H20T", compression |-> "zip"] }

\* python main.py -i <file> -o out/o.tiff -m <model> --compression <name>
CliSingle ==
  /\ pc = "idle"
  /\ \E f \in tree, w \in WriteOutcomes, a \in CliArgs :
       LET r == CliMain(sdk_handle, is_initialized, f, SingleOutputPath,
                        outFiles, w)
       IN /\ call' = [NoCall EXCEPT !.op = "cli", !.file = f,
                                     !.output = SingleOutputPath,
                                     !.write = w, !.args = a]
          /\ ret' = AsRet(r)
          /\ outFiles' = r.files
  /\ pc' = "done"
  /\ UNCHANGED <<gui, registry, tree, sdkLib, sdk_handle, is_initialized, rjpeg_files, idx,
                 results, jobs>>

\* ------------------------------------------- main.py, batch mode

ExtJPG == <<".", "J", "P", "G">>

\* input_dir.glob("**/*.jpg" or "*.jpg") and the same with ".JPG", on a file
\* system that tells letter cases apart: pathlib matches the pattern as
\* written.
GlobJpg(t, recursive) == {f \in Walked(t, recursive) : EndsWith(f.name, ExtJpg)}

GlobJPG(t, recursive) == {f \in Walked(t, recursive) : EndsWith(f.name, ExtJPG)}

\* image_files: the matches of the first pattern, then those of the second,
\* each in the order the directory scan gives them.
ImageFiles(t, recursive) ==
  LET A == GlobJpg(t, recursive)
      B == GlobJPG(t, recursive)
      n == Cardinality(A) + Cardinality(B)
  IN {q \in [1..n -> A \cup B] :
        /\ \A a, b \in 1..n : a # b => q[a] # q[b]
        /\ \A a, b \in 1..n : (q[a] \in A /\ q[b] \notin A) => a < b}

\* PurePath.with_suffix(suf) on a file name: the part from the last dot on is
\* the suffix unless that dot starts or ends the name.
WithSuffix(s, suf) ==
  LET dots == {k \in 1..Len(s) : s[k] = "."}
      i == IF dots = {} THEN 0 ELSE CHOOSE k \in dots : \A m \in dots : m <= k
  IN IF 1 < i /\ i < Len(s) THEN SubSeq(s, 1, i - 1) \o suf ELSE s \o suf

\* output_dir / image_file.relative_to(input_dir).with_suffix('.tiff')
CliOutputPath(f) ==
  [dir |-> <<"out">> \o f.dir, name |-> WithSuffix(f.name, ExtTiff)]

\* What the environment does to one iteration of the command line's loop: a
\* write outcome, or "mkdir" when creating the output's parent raises.
CliJobOutcomes == WriteOutcomes \cup {"mkdir"}

\* run_dji_conversion with args.batch, the converter constructed: the glob,
\* the early return on an empty list, and the loop, iteration k meeting
\* outcome ws[k].  success is success_count.
RunDjiConversionBatch(handle, initialized, q, files, ws) ==
  LET RECURSIVE Loop(_, _, _, _)
      Loop(k, fs, js, success) ==
        IF k > Len(q) THEN [files |-> fs, jobs |-> js, success |-> success]
        ELSE
          LET f == q[k]
              out == CliOutputPath(f)
              r == ConvertRjpegToTiff(handle, initialized, f, out, fs, ws[k],
                                      "wrap")
          IN IF ws[k] = "mkdir"
               THEN Loop(k + 1, fs,
                         Append(js, [file |-> f, out |-> out, called |-> FALSE,
                                     ok |-> FALSE, stage |-> "mkdir",
                                     meta |-> NoMeta, ran |-> <<>>]),
                         success)
             ELSE Loop(k + 1, r.files,
                       Append(js, [file |-> f, out |-> out, called |-> TRUE,
                                   ok |-> r.ok, stage |-> r.stage,
                                   meta |-> r.meta, ran |-> r.ran]),
                       IF r.ok THEN success + 1 ELSE success)
  IN Loop(1, files, <<>>, 0)

\* main() in batch mode: sys.exit(1) when the SDK is not initialised, else
\* run_dji_conversion; the exit status does not tell how the files fared.
CliMainBatch(handle, initialized, q, files, ws) ==
  LET r == RunDjiConversionBatch(handle, initialized, q, files, ws)
  IN IF ~initialized
       THEN [NoRet EXCEPT !.exit = 1] @@ [files |-> files]
     ELSE [NoRet EXCEPT !.image_files = q, !.jobs = r.jobs,
                        !.results = [success |-> r.success, failed |-> 0,
                                     total |-> Len(q)]]
            @@ [files |-> r.files]

\* The --model and --compression a batch command line is given.
CliBatchArgs == {[model |-> "H20T", compression |-> "zip"]}

\* python main.py -i <directory> -o out --batch [--recursive] -m <model>
\* --compression <name>.  Nothing is globbed when main() exits before
\* run_dji_conversion.
CliBatch ==
  /\ pc = "idle"
  /\ \E recursive \in BOOLEAN, a \in CliBatchArgs :
       \E q \in IF is_initialized THEN ImageFiles(tree, recursive) ELSE {<<>>} :
         \E ws \in [1..Len(q) -> CliJobOutcomes] :
           LET r == CliMainBatch(sdk_handle, is_initialized, q, outFiles, ws)
           IN /\ call' = [NoCall EXCEPT !.op = "clibatch",
                                         !.recursive = recursive,
                                         !.input_dir = "tree", !.args = a]
              /\ ret' = AsRet(r)
              /\ outFiles' = r.files
  /\ pc' = "done"
  /\ UNCHANGED <<gui, registry, tree, sdkLib, sdk_handle, is_initialized, rjpeg_files, idx,
                 results, jobs>>

\* The GUI's conversion worker on one file.
GuiSingle ==
  /\ pc = "idle"
  /\ \E f \in tree, w \in WriteOutcomes :
       LET out == [dir |-> <<"output">>, name |-> SplitextRoot(f.name) \o ExtTiff]
           r == GuiConvertImages(sdk_handle, is_initialized, f, out, outFiles, w)
       IN /\ call' = [NoCall EXCEPT !.op = "gui", !.file = f, !.output = out,
                                     !.write = w]
          /\ ret' = AsRet(r)
          /\ outFiles' = r.files
  /\ pc' = "done"
  /\ UNCHANGED <<gui, registry, tree, sdkLib, sdk_handle, is_initialized, rjpeg_files, idx,
                 results, jobs>>

\* ------------------------------------------- grid acquisition, encoding

\* Largest number of pixels in a grid handed to the encoder directly.
MaxPixels == 2

\* Widths and heights _create_mock_temperature_data is called with.
DimArgs == {-1, 0, 2, 640}

\* Temperatures, in hundredths of a degree, of the grids handed to the
\* encoder: inside the models' ranges (-20 .. 1600 degrees C), with one and
\* two decimals, and beyond what int16 holds after scaling.
TempArgs ==
  {-2000, -1993, -7, 0, 2007, 2010, 2013, 2018, 55000, 160000,
   327679, 327680, 400000, -327690}

GridArgs ==
  {[shape |-> <<1, Len(q)>>, source |-> "caller", samples |-> q] :
     q \in UNION {[1..n -> TempArgs] : n \in 1..MaxPixels}}

\* Compression names save_temperature_tiff is called with: the documented
\* ones, Pillow's own name for LZW, which Config.TIFF_COMPRESSION_OPTIONS
\* does not list, and a name nobody knows.
CompressionArgs == TIFF_COMPRESSION_OPTIONS \cup {"tiff_lzw", "bogus"}

\* The arguments of the direct calls of save_temperature_tiff: every grid
\* with the default compression, and a one-pixel grid with every name.
SaveArgs ==
  {[grid |-> g, compression |-> "lzw"] : g \in GridArgs}
    \cup {[grid |-> [shape |-> <<1, 1>>, source |-> "caller",
                     samples |-> <<2010>>],
           compression |-> c] : c \in CompressionArgs}

\* converter._create_mock_temperature_data(resolution) called directly.
AcquireMock ==
  /\ pc = "idle"
  /\ \E width \in DimArgs, height \in DimArgs :
       LET r == CreateMockTemperatureData(<<width, height>>)
       IN /\ call' = [NoCall EXCEPT !.op = "mock",
                                     !.resolution = <<width, height>>]
          /\ ret' = [NoRet EXCEPT !.ok = r.ok, !.grid = r.grid,
                                   !.stage = IF r.ok THEN "ok" ELSE "acquire"]
  /\ pc' = "done"
  /\ UNCHANGED <<gui, registry, tree, sdkLib, sdk_handle, is_initialized, rjpeg_files, idx,
                 results, jobs, outFiles>>

\* converter._create_mock_temperature_data(resolution) called a second time
\* on the same converter, after the first call returned.  The generator does
\* not read the input tree, so the second call is made where it is empty.
AcquireMockAgain ==
  /\ pc = "done"
  /\ call.op = "mock"
  /\ tree = {}
  /\ \E width \in DimArgs, height \in DimArgs :
       \E r \in {CreateMockTemperatureData(<<width, height>>)} :
         /\ call' = [call EXCEPT !.op = "mock2", !.grid = ret.grid,
                                  !.again = <<width, height>>]
         /\ ret' = [NoRet EXCEPT !.ok = r.ok, !.grid = r.grid,
                                  !.stage = IF r.ok THEN "ok" ELSE "acquire"]
  /\ UNCHANGED <<gui, registry, tree, sdkLib, sdk_handle, is_initialized, pc,
                 rjpeg_files, idx, results, jobs, outFiles>>

\* converter.save_temperature_tiff(grid, metadata, output_path, compression)
\* called directly.  The encoder reads neither the input tree nor the SDK
\* state, so the call is made where the input tree is empty.
SaveGrid ==
  /\ pc = "idle"
  /\ tree = {}
  /\ \E a \in SaveArgs, w \in WriteOutcomes, cast \in CastModes :
       LET r == SaveTemperatureTiff(a.grid, NoMeta, SingleOutputPath,
                                    a.compression, outFiles, w, cast)
       IN /\ call' = [NoCall EXCEPT !.op = "save", !.grid = a.grid,
                                     !.output = SingleOutputPath,
                                     !.write = w,
                                     !.compression = a.compression]
          /\ ret' = [NoRet EXCEPT !.ok = r.ok,
                                   !.stage = IF r.ok THEN "ok" ELSE "encode"]
          /\ outFiles' = r.files
  /\ pc' = "done"
  /\ UNCHANGED <<gui, registry, tree, sdkLib, sdk_handle, is_initialized, rjpeg_files, idx,
                 results, jobs>>

\* ------------------------------------------------------ gui.py threads

\* start_conversion, run by Tk's main loop for a click on the enabled button:
\* a warning and nothing else while is_converting; an error box and nothing
\* else when no input path is entered; else the flag is set, the button
\* disabled, the bar started and a worker thread started on convert_images.
StartConversion(g, input) ==
  IF g.is_converting THEN g
  ELSE IF input = "empty" THEN g
  ELSE [g EXCEPT !.is_converting = TRUE, !.button = "disabled",
                 !.progress = "running", !.workers = Append(@, "body")]

\* The worker threads that have not ended.
LiveWorkers(g) == {i \in 1..Len(g.workers) : g.workers[i] # "ended"}

\* The ways the try block of convert_images is left: the SDK is not
\* initialised (return), no file is found in batch mode (return), the
\* conversions are done, or an exception is caught.
WorkerPaths(initialized) ==
  IF ~initialized THEN {"sdk"} ELSE {"nofiles", "converted", "exception"}

\* A click on the convert button.  Tk does not call the command of a
\* disabled button.  The window is modelled on its own, with no input tree.
GuiClick ==
  /\ pc \in {"idle", "gui"}
  /\ tree = {}
  /\ gui.clicks < MaxClicks
  /\ \E input \in {"empty", "path"} :
       gui' = IF gui.button = "disabled" THEN [gui EXCEPT !.clicks = @ + 1]
              ELSE [StartConversion(gui, input) EXCEPT !.clicks = @ + 1]
  /\ pc' = "gui"
  /\ UNCHANGED <<registry, tree, sdkLib, sdk_handle, is_initialized, call,
                 rjpeg_files, idx, results, jobs, outFiles, ret>>

\* Worker i runs the try block of convert_images to its end on one of the
\* paths; the finally block is next.
GuiWorkerBody ==
  /\ pc = "gui"
  /\ \E i \in 1..Len(gui.workers) :
       /\ gui.workers[i] = "body"
       /\ \E path \in WorkerPaths(InitSdk(sdkLib).initialized) :
            gui' = [gui EXCEPT !.workers[i] = "finally",
                               !.left = Append(@, path)]
  /\ UNCHANGED <<registry, tree, sdkLib, sdk_handle, is_initialized, pc, call,
                 rjpeg_files, idx, results, jobs, outFiles, ret>>

\* finally, first statement: self.is_converting = False.
GuiWorkerReset ==
  /\ pc = "gui"
  /\ \E i \in 1..Len(gui.workers) :
       /\ gui.workers[i] = "finally"
       /\ gui' = [gui EXCEPT !.is_converting = FALSE, !.workers[i] = "config"]
  /\ UNCHANGED <<registry, tree, sdkLib, sdk_handle, is_initialized, pc, call,
                 rjpeg_files, idx, results, jobs, outFiles, ret>>

\* finally, second statement: self.convert_button.config(state="normal").
GuiWorkerEnable ==
  /\ pc = "gui"
  /\ \E i \in 1..Len(gui.workers) :
       /\ gui.workers[i] = "config"
       /\ gui' = [gui EXCEPT !.button = "normal", !.workers[i] = "stop"]
  /\ UNCHANGED <<registry, tree, sdkLib, sdk_handle, is_initialized, pc, call,
                 rjpeg_files, idx, results, jobs, outFiles, ret>>

\* finally, third statement: self.progress.stop(); the thread ends.
GuiWorkerStop ==
  /\ pc = "gui"
  /\ \E i \in 1..Len(gui.workers) :
       /\ gui.workers[i] = "stop"
       /\ gui' = [gui EXCEPT !.progress = "stopped", !.workers[i] = "ended"]
  /\ UNCHANGED <<registry, tree, sdkLib, sdk_handle, is_initialized, pc, call,
                 rjpeg_files, idx, results, jobs, outFiles, ret>>

\* ---------------------------------------------------- registry lookup

\* Model ids get_model_config is called with: the keys in upper, lower and
\* mixed case, and ids that are no key in any case.
ModelArgs ==
  { <<"M", "3", "0", "T">>, <<"m", "3", "0", "t">>, <<"M", "3", "0", "t">>,
    <<"h", "2", "0", "t">>, <<"H", "3", "0", "T">>, <<"h", "3", "0", "T">>,
    <<"m", "2", "e", "a">>, <<"M", "2", "E", "A">>, <<"X", "9">>, <<>>,
    <<"M", "3", "0">>, <<"m", "3", "0", "t", "x">>, <<"_", "m", "3", "0", "t">> }

\* Config.get_model_config(model) called directly.  The lookup reads neither
\* the input tree nor the SDK state, so the call is made where the input
\* tree is empty.
LookupModel ==
  /\ pc = "idle"
  /\ tree = {}
  /\ \E model \in ModelArgs :
       LET r == GetModelConfig(registry, model)
       IN /\ call' = [NoCall EXCEPT !.op = "lookup", !.model = model]
          /\ ret' = [NoRet EXCEPT !.ok = r.ok, !.record = r.record,
                                   !.stage = r.error]
          /\ registry' = r.registry
  /\ pc' = "done"
  /\ UNCHANGED <<gui, tree, sdkLib, sdk_handle, is_initialized, rjpeg_files, idx,
                 results, jobs, outFiles>>

Next ==
  \/ BatchCall
  \/ BatchDiscover
  \/ BatchDiscoverRaise
  \/ BatchJobStart
  \/ BatchJob
  \/ BatchJobRaise
  \/ BatchReturn
  \/ ConvertSingle
  \/ CliSingle
  \/ GuiSingle
  \/ CliBatch
  \/ LookupModel
  \/ GuiClick
  \/ GuiWorkerBody
  \/ GuiWorkerReset
  \/ GuiWorkerEnable
  \/ GuiWorkerStop
  \/ AcquireMock
  \/ AcquireMockAgain
  \/ SaveGrid

Spec == Init /\ [][Next]_vars

\* What a batch_convert call still has to do, as a natural number: discovery
\* and the return, and a call and its return for each entry of the list not
\* yet taken.
Remaining ==
  IF pc = "discover" THEN 2 * Cardinality(tree) + 2
  ELSE IF pc = "convert" THEN
    (IF idx < Len(rjpeg_files) THEN 2 * (Len(rjpeg_files) - idx) ELSE 0) + 1
  ELSE IF pc = "job" THEN 2 * (Len(rjpeg_files) - idx)
  ELSE 0

\* ================================================================ claims

BatchDone == pc = "done" /\ call.op = "batch"

\* The file the output directory holds at path p, as a set of at most one.
FileAt(p) == {x \in outFiles : x.path = p}

\* C1: when batch_convert returns, success + failed == total, whatever the
\* tree and whatever the outcome of each conversion.
C1_CountsAddUp ==
  BatchDone =>
    /\ ret.results = results
    /\ ret.results.success + ret.results.failed = ret.results.total

\* A batch of three candidates has returned with successes and failures.
C1_Witness ==
  /\ BatchDone
  /\ ret.results.total = 3
  /\ ret.results.success >= 1
  /\ ret.results.failed >= 1

\* C2: total changes only when discovery finishes, success and failed never
\* decrease, and success + failed <= total in every state of a run.
C2_TotalFixedCountsMonotone ==
  /\ [](results.success + results.failed <= results.total)
  /\ [][/\ (pc # "discover") => results'.total = results.total
         /\ results'.success >= results.success
         /\ results'.failed >= results.failed]_vars

\* The loop is under way: some files are counted, some are still to come.
C2_Witness ==
  /\ pc = "convert"
  /\ results.total = 3
  /\ results.success = 1
  /\ results.failed = 1
  /\ idx < Len(rjpeg_files)

\* C3: a failed iteration (convert_rjpeg_to_tiff returned False, or the
\* iteration raised) adds one to failed, leaves success alone and moves the
\* loop to the next entry; the batch returns only after the whole list.
C3_FailureIsolated ==
  /\ [][(jobs' # jobs /\ ~jobs'[Len(jobs')].ok) =>
          /\ results'.failed = results.failed + 1
          /\ results'.success = results.success
          /\ results'.total = results.total
          /\ idx' = idx + 1
          /\ pc' = "convert"]_vars
  /\ [](BatchDone =>
          /\ Len(jobs) = Len(rjpeg_files)
          /\ \A k \in 1..Len(jobs) : jobs[k].file = rjpeg_files[k])

\* A batch has returned in which the first iteration raised, the second
\* conversion returned False and the third file was converted.
C3_Witness ==
  /\ BatchDone
  /\ Len(jobs) = 3
  /\ ~jobs[1].called /\ ~jobs[1].ok
  /\ jobs[2].called /\ ~jobs[2].ok
  /\ jobs[3].ok

\* The loop iterations that took file f, and those that called
\* convert_rjpeg_to_tiff on it.
IterationsOf(f) == {k \in 1..Len(jobs) : jobs[k].file = f}

CallsOf(f) == {k \in IterationsOf(f) : jobs[k].called}

BadSource(f) == f.image = NoImage \/ ~f.readable

\* C5: a batch over n candidates of which k have a corrupted or unreadable
\* source, nothing else going wrong (no write fails, no path computation
\* raises), returns total = n, success = n - k, failed = k.
C5_BadSourcesFail ==
  ( /\ BatchDone
    /\ call.input_dir = "tree"
    /\ \A j \in 1..Len(jobs) : jobs[j].stage \notin {"path", "encode"} ) =>
    LET n == Len(rjpeg_files)
        k == Cardinality({m \in 1..n : BadSource(rjpeg_files[m])})
    IN ret.results = [total |-> n, success |-> n - k, failed |-> k]

\* C6: the metadata extract_temperature_data builds says is_real_data exactly
\* when the grid it describes came from the vendor decoder and not from the
\* synthetic generator.
C6_RealIffHardware ==
  (pc = "done" /\ call.op = "single" /\ ret.meta # NoMeta) =>
    (ret.meta.is_real_data <=> ret.grid.source = "hardware")

\* C7: with the vendor library absent or not loadable, a conversion of a
\* readable file whose write the environment lets through ends in success
\* with is_real_data = false and a warning, through the converter, the command
\* line and the GUI alike.
C7_FallbackNotFailure ==
  ( /\ pc = "done"
    /\ call.op \in {"single", "cli", "gui"}
    /\ sdkLib \in {"absent", "unloadable"}
    /\ call.file.readable
    /\ call.write = "ok" ) =>
    /\ ret.ok
    /\ ret.exit = 0
    /\ ~ret.meta.is_real_data
    /\ ret.meta.warning
    /\ \E x \in FileAt(call.output) : x.state = "complete"

\* C8: acquiring a grid from an empty byte buffer fails, and acquiring a grid
\* with a width or height <= 0 fails; no grid is returned and no file written.
C8_EmptyAndBadResolutionFail ==
  /\ ( /\ pc = "done"
        /\ call.op = "single"
        /\ call.file.readable
        /\ call.file.size = 0 ) =>
        (~ret.ok /\ ret.grid = NoGrid /\ FileAt(call.output) = {})
  /\ ( /\ pc = "done"
        /\ call.op = "mock"
        /\ (call.resolution[1] <= 0 \/ call.resolution[2] <= 0) ) =>
        (~ret.ok /\ ret.grid = NoGrid /\ outFiles = {})

\* t * 10 for a temperature of c hundredths lies outside [-32768, 32767].
ScaledOutOfInt16(c) ==
  c * TempScale < Int16Min * 100 \/ c * TempScale > Int16Max * 100

\* C9: save_temperature_tiff on a grid holding a temperature whose scaled
\* value does not fit int16 fails and leaves no file at the output path.
C9_OverflowFails ==
  ( /\ pc = "done"
    /\ call.op = "save"
    /\ \E k \in 1..Len(call.grid.samples) :
         ScaledOutOfInt16(call.grid.samples[k]) ) =>
    (~ret.ok /\ FileAt(call.output) = {})

\* The temperatures, in hundredths, the device table declares for some model.
InDeclaredRange(c) ==
  \E m \in DOMAIN device_configs :
    /\ device_configs[m].temperature_range[1] * 100 <= c
    /\ c <= device_configs[m].temperature_range[2] * 100

\* C10: for temperatures inside a model's declared range the encoder stores
\* round(t * 10), so stored / 10 is within 0.05 degrees of t.
C10_StoresRounded ==
  ( /\ pc = "done"
    /\ call.op = "save"
    /\ ret.ok
    /\ \A k \in 1..Len(call.grid.samples) :
         InDeclaredRange(call.grid.samples[k]) ) =>
    \A x \in FileAt(call.output) :
      \A k \in 1..Len(call.grid.samples) :
        LET c == call.grid.samples[k]
            d == x.stored[k] * 10 - c
        IN /\ x.stored[k] = RoundDiv(c * TempScale, 100)
           /\ -5 <= d /\ d <= 5

\* C11: save_temperature_tiff with a compression name outside
\* {lzw, zip, none} fails as an unsupported compression and leaves no file at
\* the output path; with a name inside the set the call never fails for its
\* compression (it succeeds whenever the environment lets the write through).
C11_UnknownCompressionRejected ==
  (pc = "done" /\ call.op = "save") =>
    /\ (call.compression \notin TIFF_COMPRESSION_OPTIONS) =>
         (~ret.ok /\ ret.stage = "compression" /\ FileAt(call.output) = {})
    /\ (call.compression \in TIFF_COMPRESSION_OPTIONS /\ call.write = "ok") =>
         ret.ok

\* C12: when the write of the TIFF fails after it has started,
\* save_temperature_tiff returns False and no file, complete or partial, is at
\* the output path afterwards.
C12_FailedWriteLeavesNoFile ==
  (pc = "done" /\ call.op = "save" /\ call.write = "partial") =>
    (~ret.ok /\ FileAt(call.output) = {})

\* The stages of a conversion job, in the order the code enters them.
StageOrder == <<"detect", "read", "acquire", "metadata", "encode">>

\* A result r of a conversion job: the stages entered are the first stages of
\* StageOrder; a failed job stopped in the stage it reports, a successful one
\* went through all of them.
RanInOrder(r) ==
  /\ Len(r.ran) >= 1
  /\ Len(r.ran) <= Len(StageOrder)
  /\ r.ran = SubSeq(StageOrder, 1, Len(r.ran))
  /\ r.ok => (r.stage = "ok" /\ r.ran = StageOrder)
  /\ ~r.ok => r.stage = r.ran[Len(r.ran)]

\* C13: a conversion job enters its stages in the order detect, read, acquire,
\* metadata, encode; a failing stage is the last one entered and the one the
\* job reports; after a read or acquire failure the encoder is not entered
\* and the output directory is left as it was.
C13_StagesInOrderShortCircuit ==
  /\ []((pc = "done" /\ ret.converted) =>
          /\ RanInOrder(ret)
          /\ ret.stage \in {"read", "acquire"} => outFiles = {})
  /\ [](\A k \in 1..Len(jobs) : jobs[k].called => RanInOrder(jobs[k]))
  /\ [][(jobs' # jobs /\ jobs'[Len(jobs')].stage \in {"read", "acquire"}) =>
          outFiles' = outFiles]_vars

\* A batch has returned in which one job failed reading its source, one
\* failed in the encoder and one went through every stage.
C13_Witness ==
  /\ BatchDone
  /\ \E k \in 1..Len(jobs) : jobs[k].stage = "read" /\ jobs[k].ran = <<"detect", "read">>
  /\ \E k \in 1..Len(jobs) : jobs[k].stage = "encode" /\ jobs[k].ran = StageOrder
  /\ \E k \in 1..Len(jobs) : jobs[k].ok /\ jobs[k].ran = StageOrder

\* C14: resolution detection does not fail: for a source PIL cannot open the
\* job goes on to the read stage, and the resolution it detected is the one
\* Config.DRONE_MODELS records for the default model.
C14_DetectionFallsBackToRegistry ==
  ( /\ pc = "done"
    /\ call.op = "single"
    /\ (call.file.image = NoImage \/ ~call.file.readable) ) =>
    /\ Len(ret.ran) >= 2
    /\ ret.ran[1] = "detect"
    /\ ret.ran[2] = "read"
    /\ ret.meta # NoMeta =>
         <<ret.meta.detected_width, ret.meta.detected_height>>
           = DRONE_MODELS[DEFAULT_DRONE_MODEL].resolution

\* The files of tree t a batch discovery is to collect: below the top level
\* only when recursive, with the extension .jpg or .jpeg in any letter case,
\* and passing the candidate filter.
ToDiscover(t, recursive) ==
  {f \in t :
     /\ recursive \/ f.dir = <<>>
     /\ \/ EndsWith(Lower(f.name), ExtJpg)
        \/ EndsWith(Lower(f.name), ExtJpeg)
     /\ IsLikelyRjpeg(f)}

\* The entries of a list, and whether it lists every entry once.
Entries(q) == {q[k] : k \in 1..Len(q)}

NoRepeats(q) == Cardinality(Entries(q)) = Len(q)

\* C15: the list a batch run discovers holds exactly the files ToDiscover
\* names, each once, and total is their number, in batch_convert and in the
\* command line's batch mode alike.
C15_DiscoversByExtension ==
  /\ (call.op = "batch" /\ call.input_dir = "tree" /\ pc \in {"convert", "job", "done"}) =>
       /\ Entries(rjpeg_files) = ToDiscover(tree, call.recursive)
       /\ NoRepeats(rjpeg_files)
       /\ results.total = Cardinality(ToDiscover(tree, call.recursive))
  /\ (call.op = "clibatch" /\ pc = "done" /\ ret.exit = 0) =>
       /\ Entries(ret.image_files) = ToDiscover(tree, call.recursive)
       /\ NoRepeats(ret.image_files)
       /\ ret.results.total = Cardinality(ToDiscover(tree, call.recursive))

\* C16: of the files batch_convert hands to the candidate filter, those it
\* drops are exactly those smaller than 100 KB; a file of at least 100 KB is
\* kept whatever its name and content.
C16_FilterRejectsOnlySmall ==
  (call.op = "batch" /\ call.input_dir = "tree" /\ pc \in {"convert", "job", "done"}) =>
    \A f \in Walked(tree, call.recursive) :
      HasJpegExtension(f.name) =>
        (f \notin Entries(rjpeg_files) <=> f.size < MinRjpegSize)

\* The name of a .jpg or .jpeg file, of any letter case, with that extension
\* taken off and the TIFF extension put on.
TiffNameOf(name) ==
  IF EndsWith(Lower(name), ExtJpeg)
    THEN SubSeq(name, 1, Len(name) - Len(ExtJpeg)) \o ExtTiff
  ELSE SubSeq(name, 1, Len(name) - Len(ExtJpg)) \o ExtTiff

\* A job record whose output path is the output directory, then the
\* directories of the input file below the input directory, then the file's
\* name with the TIFF extension.
MirrorsInput(j) ==
  /\ Len(j.out.dir) >= 1
  /\ j.out.dir[1] = "out"
  /\ SubSeq(j.out.dir, 2, Len(j.out.dir)) = j.file.dir
  /\ j.out.name = TiffNameOf(j.file.name)

\* C17: every conversion a batch run starts, in batch_convert and in the
\* command line's batch mode, is given an output path under the output
\* directory that mirrors the input's relative path with the TIFF extension,
\* and a file a job writes is at that path.
C17_OutputMirrorsInput ==
  /\ \A k \in 1..Len(jobs) :
       jobs[k].called =>
         /\ MirrorsInput(jobs[k])
         /\ jobs[k].ok => FileAt(jobs[k].out) # {}
  /\ \A k \in 1..Len(ret.jobs) :
       /\ MirrorsInput(ret.jobs[k])
       /\ ret.jobs[k].ok => FileAt(ret.jobs[k].out) # {}
  /\ \A x \in outFiles :
       (call.op \in {"batch", "clibatch"}) =>
         \E f \in tree : x.path = [dir |-> <<"out">> \o f.dir,
                                   name |-> TiffNameOf(f.name)]

\* A batch has returned that converted a file of a sub-directory and a file
\* of the top directory, each written below the output directory where the
\* input was below the input directory.
C17_Witness ==
  /\ BatchDone
  /\ \E k \in 1..Len(jobs) :
       /\ jobs[k].ok
       /\ jobs[k].file.dir = <<"sub">>
       /\ jobs[k].out.dir = <<"out", "sub">>
       /\ FileAt(jobs[k].out) # {}
  /\ \E k \in 1..Len(jobs) :
       /\ jobs[k].ok
       /\ jobs[k].file.dir = <<>>
       /\ jobs[k].out.dir = <<"out">>

\* C18: a batch_convert whose input directory does not exist or cannot be
\* listed starts no conversion and returns a discovery error, which differs
\* from what a batch over an empty directory returns.
C18_DiscoveryErrorReported ==
  (BatchDone /\ call.input_dir # "tree") =>
    /\ jobs = <<>>
    /\ ret.stage = "discovery"
    /\ ret # [NoRet EXCEPT !.results = ZeroResults]

\* The ids the registry knows, letter by letter.
KnownIds ==
  { <<"M", "3", "0", "T">>, <<"H", "2", "0", "T">>, <<"H", "3", "0", "T">>,
    <<"M", "2", "E", "A">> }

\* C19: get_model_config succeeds exactly for the ids whose upper-case form
\* is M30T, H20T, H30T or M2EA and returns that model's record, the same for
\* every id with the same upper-case form; every other id raises the
\* unknown-model ValueError; the registry is never changed.
C19_LookupIgnoresCase ==
  /\ []((pc = "done" /\ call.op = "lookup") =>
          /\ ret.ok <=> Upper(call.model) \in KnownIds
          /\ ret.ok =>
               /\ \E m \in DOMAIN DRONE_MODELS :
                    /\ Spelling[m] = Upper(call.model)
                    /\ ret.record = DRONE_MODELS[m]
               /\ \A other \in ModelArgs :
                    Upper(other) = Upper(call.model) =>
                      GetModelConfig(registry, other).record = ret.record
          /\ ~ret.ok => (ret.stage = "ValueError" /\ ret.record = NoRecord))
  /\ [](registry = DRONE_MODELS)
  /\ [][registry' = registry]_vars

\* The record of M30T has been returned for the id m30t.
C19_Witness ==
  /\ pc = "done"
  /\ call.op = "lookup"
  /\ call.model = <<"m", "3", "0", "t">>
  /\ ret.ok
  /\ ret.record = DRONE_MODELS["M30T"]
  /\ registry = DRONE_MODELS

\* The number of convert_rjpeg_to_tiff calls a batch run has in progress: the
\* for loop waits in the one call it has made.
Running == IF pc = "job" THEN 1 ELSE 0

\* The loop iterations of a batch run that ended with result ok.
JobsWith(ok) == {k \in 1..Len(jobs) : jobs[k].ok = ok}

\* C20: during batch_convert the conversions in progress never outnumber
\* Config.MAX_CONCURRENT_CONVERSIONS; the counts are changed by one iteration
\* at a time, while no other conversion is in progress, and every iteration's
\* increment is kept: success and failed are the numbers of iterations that
\* ended so.
C20_BoundedAndNoLostUpdate ==
  /\ [](Running <= MAX_CONCURRENT_CONVERSIONS)
  /\ [](/\ results.success = Cardinality(JobsWith(TRUE))
        /\ results.failed = Cardinality(JobsWith(FALSE)))
  /\ [][/\ Len(jobs') - Len(jobs) \in {0, 1}
        /\ (results'.success + results'.failed)
             - (results.success + results.failed) = Len(jobs') - Len(jobs)
        /\ (results'.success # results.success
              \/ results'.failed # results.failed) => Running' = 0]_vars

\* A conversion is in progress after two others were counted, one of each
\* result.
C20_Witness ==
  /\ Running = 1
  /\ results = [success |-> 1, failed |-> 1, total |-> 3]
  /\ Len(jobs) = 2

UsesModel(a, f, meta) ==
  /\ meta.device_model = a.model
  /\ (f.image = NoImage) =>
       <<meta.detected_width, meta.detected_height>>
         = device_configs[a.model].resolution

\* C22: a conversion started with a model and a compression uses them: the
\* metadata carries the model, the fallback resolution is the model's, and
\* the file is written with the compression, in single-file mode and in
\* batch mode.
C22_SuppliedModelAndCompressionUsed ==
  /\ (pc = "done" /\ call.op = "cli" /\ ret.converted) =>
       /\ ret.meta # NoMeta => UsesModel(call.args, call.file, ret.meta)
       /\ \A x \in FileAt(call.output) :
            x.state = "complete" => x.compression = call.args.compression
  /\ (pc = "done" /\ call.op = "clibatch") =>
       /\ \A k \in 1..Len(ret.jobs) :
            ret.jobs[k].meta # NoMeta =>
              UsesModel(call.args, ret.jobs[k].file, ret.jobs[k].meta)
       /\ \A x \in outFiles :
            x.state = "complete" => x.compression = call.args.compression

\* Job records of one batch that were given pairwise different output paths.
DistinctOutputs(js) ==
  \A j, k \in 1..Len(js) : j # k => js[j].out # js[k].out

\* C23: within one batch no two candidates are given the same output path,
\* in batch_convert and in the command line's batch mode, so every file a job
\* of the batch wrote is still there, as that job wrote it, when the batch
\* returns.
C23_NoOutputCollision ==
  /\ (call.op = "batch") =>
       /\ DistinctOutputs(SelectSeq(jobs, LAMBDA j : j.called))
       /\ BatchDone =>
            \A k \in 1..Len(jobs) :
              jobs[k].ok =>
                \E x \in FileAt(jobs[k].out) :
                  x.state = "complete" /\ x.meta = jobs[k].meta
  /\ (call.op = "clibatch" /\ pc = "done") => DistinctOutputs(ret.jobs)

\* C24: in the GUI at most one worker thread is alive at any time; a click
\* while is_converting starts no worker; and when a worker thread ends,
\* is_converting is false and the convert button is enabled.
C24_OneWorkerAndReset ==
  /\ [](Cardinality(LiveWorkers(gui)) <= 1)
  /\ [][(gui.is_converting /\ gui'.clicks > gui.clicks) =>
          gui'.workers = gui.workers]_vars
  /\ [][(LiveWorkers(gui') # LiveWorkers(gui)
           /\ Len(gui'.workers) = Len(gui.workers)) =>
          (~gui'.is_converting /\ gui'.button = "normal")]_vars

\* C25: the converter's device table and Config's registry hold the same
\* model ids and, for every model id, the same temperature range and the
\* same native resolution.
C25_DeviceTablesAgree ==
  /\ DOMAIN device_configs = DOMAIN registry
  /\ \A m \in DOMAIN device_configs :
       /\ device_configs[m].temperature_range = registry[m].temperature_range
       /\ device_configs[m].resolution = registry[m].resolution

====
